---- MODULE Spec2Model ----
(***************************************************************************)
(* Hand-gesture mouse control: the frame loop of main.py, the gesture      *)
(* recogniser of gesture_detector.py and the pointer mapper / dispatcher   *)
(* of mouse_controller.py.                                                 *)
(*                                                                         *)
(* Units.  Landmark coordinates and landmark distances are normalised      *)
(* floats in the source; here they are integers counting hundredths        *)
(* (0.05 is 5).  Times are floats in seconds in the source; here they are  *)
(* integers counting twentieths of a second (0.05 s is 1, 1.0 s is 20).    *)
(* Pixel positions derived from landmarks are therefore in hundredths of   *)
(* a pixel.  Python's None is the empty tuple, and a value that may be     *)
(* None is a tuple of one element (a position is a tuple already).         *)
(***************************************************************************)
EXTENDS Integers, Sequences, FiniteSets, TLC

None == << >>

Max(a, b) == IF a >= b THEN a ELSE b
Min(a, b) == IF a <= b THEN a ELSE b

(***************************************************************************)
(* config.py                                                               *)
(***************************************************************************)
CLICK_COOLDOWN == 3
SCROLL_COOLDOWN == 1
DRAG_DELAY == 20
PINCH_THRESHOLD == 5
FIST_THRESHOLD == 8
SWIPE_THRESHOLD == 4
SMOOTH_FACTOR == 50
SCREEN_PADDING == 50
FRAME_WIDTH == 640
FRAME_HEIGHT == 480
SCROLL_SENSITIVITY == 8

(***************************************************************************)
(* Bounds of the model and the inputs drawn each frame.                    *)
(***************************************************************************)
MaxFrames == 4

\* First reading of time.time(): far later than every cooldown counted
\* from the initial timestamps 0.
StartTime == 100

\* Difference between two successive readings of time.time().  The wall
\* clock may be set back between two frames.
ClockSteps == {-1, 1, 2, 20}

\* frame.shape[:2] of the captured frames: (height, width).  The camera
\* may ignore the size requested with cap.set.
FrameShapes == {<<480, 640>>, <<720, 1280>>}

\* pyautogui.size(): (width, height).
ScreenSizes == {<<1920, 1080>>}

\* Fingertip-palm distances (hundredths): curled and extended.
FingerDists == {5, 18}
\* Thumb-index distances: pinched, exactly the pinch threshold, apart.
ThumbIndexDists == {3, 5, 14}
\* palm.y and (index.x, index.y) of the landmarks (hundredths).
PalmYs == {40, 44, 50}
IndexTips == {<<20, 30>>, <<80, 70>>}

\* What a call of the pointer backend does: return, raise
\* pyautogui.FailSafeException (a subclass of Exception), or raise another
\* exception.
Outcomes == {"ok", "FailSafeException", "OSError"}

(***************************************************************************)
(* gesture_detector.py: the pose tests                                     *)
(***************************************************************************)
detect_pinch(positions) == positions.thumb_index < PINCH_THRESHOLD

detect_only_index_up(positions) ==
    /\ positions.index > 14
    /\ positions.middle < 12
    /\ positions.ring < 12
    /\ positions.pinky < 12

detect_thumb_index_open(positions) ==
    LET both_extended == positions.thumb > 12 /\ positions.index > 15
        not_pinching == positions.thumb_index > PINCH_THRESHOLD
    IN both_extended /\ not_pinching

detect_open_hand(positions) ==
    /\ positions.thumb > 13
    /\ positions.index > 15
    /\ positions.middle > 14
    /\ positions.ring > 14
    /\ positions.pinky > 14

\* np.mean(distances) < FIST_THRESHOLD, with the mean of five written as a
\* sum: sum / 5 < t  iff  sum < 5 * t.
detect_fist(positions) ==
    LET sum_distance == positions.thumb + positions.index + positions.middle
                          + positions.ring + positions.pinky
        max_distance == Max(positions.thumb, Max(positions.index,
                          Max(positions.middle,
                            Max(positions.ring, positions.pinky))))
    IN /\ sum_distance < 5 * FIST_THRESHOLD
       /\ max_distance < FIST_THRESHOLD * 2
       /\ positions.thumb < 10
       /\ positions.index < 10

(***************************************************************************)
(* The hands sampled each frame                                            *)
(***************************************************************************)
\* The landmarks of one hand, as far as the program reads them: the five
\* fingertip-palm distances, the thumb-index distance, the palm's y and the
\* index fingertip's x, y.  Thumb tip, index tip and palm are three points,
\* so their distances satisfy the triangle inequality.  In the sampled
\* hands the ring finger and the little finger curl together.  palm.y is
\* read only behind detect_open_hand (line 217), and the index fingertip's
\* position only behind detect_pinch or detect_only_index_up
\* (get_index_position, lines 296, 338): a coordinate that these lines
\* cannot read is sampled at one value only.
Landmarks ==
    { p \in [thumb_index : ThumbIndexDists, thumb : FingerDists,
             index : FingerDists, middle : FingerDists, ring : FingerDists,
             pinky : FingerDists, palm_y : PalmYs, index_tip : IndexTips] :
        /\ p.thumb_index <= p.thumb + p.index
        /\ p.thumb <= p.thumb_index + p.index
        /\ p.index <= p.thumb_index + p.thumb
        /\ p.ring = p.pinky
        /\ detect_open_hand(p) \/ p.palm_y = 40
        /\ detect_pinch(p) \/ detect_only_index_up(p)
              \/ p.index_tip = <<20, 30>> }

NoLandmarks == [thumb_index |-> 0, thumb |-> 0, index |-> 0, middle |-> 0,
                ring |-> 0, pinky |-> 0, palm_y |-> 0, index_tip |-> <<0, 0>>]

\* results of hands.process: multi_hand_landmarks is None or one hand.
NoHand == [multi_hand_landmarks |-> FALSE, landmarks |-> NoLandmarks]

ResultsOf(hands) ==
    { [multi_hand_landmarks |-> TRUE, landmarks |-> p] : p \in hands }
    \cup {NoHand}

HandResults == ResultsOf(Landmarks)

(***************************************************************************)
(* gesture_detector.py: swipe detection and recognize_gesture              *)
(*                                                                         *)
(* self is the record of the GestureDetector's fields.  Every block of     *)
(* recognize_gesture yields [returned, self, result]: whether the block    *)
(* executed a return statement, the fields after it, and the dictionary    *)
(* returned.                                                               *)
(***************************************************************************)
Result(type, data) == [type |-> type, data |-> data]

Return(self, gesture, type, data) ==
    [returned |-> TRUE,
     self |-> [self EXCEPT !.current_gesture = gesture],
     result |-> Result(type, data)]

FallThrough(self) ==
    [returned |-> FALSE, self |-> self, result |-> Result("none", None)]

YDiff_Flipped(prev_y, current_y) == current_y - prev_y
\* y_diff = self.prev_open_hand_y - current_y
YDiff(prev_y, current_y) == prev_y - current_y

\* y_diff > threshold
SwipedUp(y_diff, threshold) == y_diff > threshold
\* y_diff < -threshold
SwipedDown(y_diff, threshold) == y_diff < -threshold

SwipeResultUp_Swapped == "scroll_up"
\* result for a hand that moved up in the image (y_diff > threshold)
SwipeResultUp == "scroll_down"
\* result for a hand that moved down in the image (y_diff < -threshold)
SwipeResultDown == "scroll_up"

\* detect_open_hand_swipe: [self, result], result None or a direction.
detect_open_hand_swipe(self, positions, frame_height) ==
    IF ~detect_open_hand(positions)
    THEN [self |-> [self EXCEPT !.prev_open_hand_y = None], result |-> None]
    ELSE
      LET current_y == positions.palm_y * frame_height IN
      IF self.prev_open_hand_y = None
      THEN [self |-> [self EXCEPT !.prev_open_hand_y = <<current_y>>],
            result |-> None]
      ELSE
        LET y_diff == YDiff(self.prev_open_hand_y[1], current_y)
            threshold == frame_height * SWIPE_THRESHOLD
        IN IF SwipedUp(y_diff, threshold)
           THEN [self |-> [self EXCEPT !.prev_open_hand_y = <<current_y>>],
                 result |-> <<SwipeResultUp>>]
           ELSE IF SwipedDown(y_diff, threshold)
           THEN [self |-> [self EXCEPT !.prev_open_hand_y = <<current_y>>],
                 result |-> <<SwipeResultDown>>]
           ELSE [self |-> self, result |-> None]

get_index_position_Swapped(positions, frame_width, frame_height) ==
    <<positions.index_tip[2] * frame_height,
      positions.index_tip[1] * frame_width>>
get_index_position(positions, frame_width, frame_height) ==
    <<positions.index_tip[1] * frame_width,
      positions.index_tip[2] * frame_height>>

ClickCooldownOver_Ge(current_time, last_time) ==
    current_time - last_time >= CLICK_COOLDOWN
\* current_time - self.last_click_time > config.CLICK_COOLDOWN
ClickCooldownOver(current_time, last_time) ==
    current_time - last_time > CLICK_COOLDOWN

\* current_time - self.last_scroll_time > config.SCROLL_COOLDOWN
ScrollCooldownOver_Ge(current_time, last_time) ==
    current_time - last_time >= SCROLL_COOLDOWN
ScrollCooldownOver(current_time, last_time) ==
    current_time - last_time > SCROLL_COOLDOWN

DragAllowed_Ge(pinch_duration) == pinch_duration >= DRAG_DELAY
\* pinch_duration > 1.0
DragAllowed(pinch_duration) == pinch_duration > DRAG_DELAY

\* The press / hold / drag arm shared by the pinch blocks (lines 280-308,
\* 389-417) and by the block under the open-hand test (lines 464-492).
PressHoldDrag_Latch(self, positions, frame_width, frame_height, current_time) ==
    IF ~self.is_pinching
    THEN IF ClickCooldownOver(current_time, self.last_click_time)
         THEN Return([self EXCEPT !.is_pinching = TRUE,
                                  !.pinch_start_time = current_time,
                                  !.last_click_time = current_time],
                     "Pinch Start (Left Press)", "left_press", None)
         ELSE FallThrough([self EXCEPT !.is_pinching = TRUE])
    ELSE LET pinch_duration == current_time - self.pinch_start_time IN
         IF DragAllowed(pinch_duration)
         THEN Return(self, "Pinch Hold + Move (Dragging)", "pinch_drag",
                     get_index_position(positions, frame_width, frame_height))
         ELSE Return(self, "Pinch Hold (Holding)", "left_hold", None)
PressHoldDrag(self, positions, frame_width, frame_height, current_time) ==
    IF ~self.is_pinching
    THEN IF ClickCooldownOver(current_time, self.last_click_time)
         THEN Return([self EXCEPT !.is_pinching = TRUE,
                                  !.pinch_start_time = current_time,
                                  !.last_click_time = current_time],
                     "Pinch Start (Left Press)", "left_press", None)
         ELSE FallThrough(self)
    ELSE LET pinch_duration == current_time - self.pinch_start_time IN
         IF DragAllowed(pinch_duration)
         THEN Return(self, "Pinch Hold + Move (Dragging)", "pinch_drag",
                     get_index_position(positions, frame_width, frame_height))
         ELSE Return(self, "Pinch Hold (Holding)", "left_hold", None)

PinchRelease_Always(self) ==
    Return([self EXCEPT !.is_pinching = FALSE],
           "Pinch Release", "left_release", None)
PinchRelease_FallThrough(self) ==
    FallThrough([self EXCEPT !.is_pinching = FALSE])
\* The release arm (lines 309-317, 418-426, 493-501).
PinchRelease(self) ==
    IF self.is_pinching
    THEN Return([self EXCEPT !.is_pinching = FALSE],
                "Pinch Release", "left_release", None)
    ELSE FallThrough(self)

\* Lines 278-317 and 387-426.
PinchBlock(self, positions, frame_width, frame_height, current_time) ==
    IF detect_pinch(positions)
    THEN PressHoldDrag(self, positions, frame_width, frame_height,
                       current_time)
    ELSE PinchRelease(self)

\* Lines 320-334, 429-443 and 504-518.
FistBlock(self, positions, current_time) ==
    IF detect_fist(positions)
    THEN IF ClickCooldownOver(current_time, self.last_right_click_time)
         THEN Return([self EXCEPT !.last_right_click_time = current_time],
                     "Fist (Right Click)", "right_click", None)
         ELSE Return(self, "Fist (Cooldown)", "none", None)
    ELSE FallThrough(self)

\* Lines 337-343, 446-452 and 521-527.
MoveBlock(self, positions, frame_width, frame_height) ==
    IF detect_only_index_up(positions)
    THEN Return(self, "Move (Index Only)", "move",
                get_index_position(positions, frame_width, frame_height))
    ELSE FallThrough(self)

\* Lines 346-351, 379-384 and 455-460.
ThumbIndexOpenBlock(self, positions) ==
    IF detect_thumb_index_open(positions)
    THEN Return(self, "Thumb + Index Open (No Action)", "none", None)
    ELSE FallThrough(self)

\* Lines 354-376.
OpenHandBlock_NoReady(self, positions, frame_height, current_time) ==
    IF detect_open_hand(positions)
    THEN LET swipe == detect_open_hand_swipe(self, positions, frame_height)
         IN IF /\ swipe.result # None
               /\ ScrollCooldownOver(current_time, swipe.self.last_scroll_time)
            THEN Return([swipe.self EXCEPT !.last_scroll_time = current_time],
                        "Open Hand Swipe", "scroll",
                        IF swipe.result = <<"scroll_up">>
                        THEN <<"up">> ELSE <<"down">>)
            ELSE FallThrough(swipe.self)
    ELSE FallThrough(self)
OpenHandBlock(self, positions, frame_height, current_time) ==
    IF detect_open_hand(positions)
    THEN
      LET swipe == detect_open_hand_swipe(self, positions, frame_height) IN
      IF /\ swipe.result # None
         /\ ScrollCooldownOver(current_time, swipe.self.last_scroll_time)
      THEN
        LET scrolled == [swipe.self EXCEPT !.last_scroll_time = current_time]
        IN IF swipe.result = <<"scroll_up">>
           THEN Return(scrolled, "Open Hand Swipe Down (Scroll UP)",
                       "scroll", <<"up">>)
           ELSE IF swipe.result = <<"scroll_down">>
           THEN Return(scrolled, "Open Hand Swipe Up (Scroll DOWN)",
                       "scroll", <<"down">>)
           ELSE FallThrough(scrolled)
      ELSE Return(swipe.self, "Open Hand Ready", "none", None)
    ELSE FallThrough(self)

\* Lines 463-501: the pinch press / hold / drag logic under the open-hand
\* test.
OpenHandPinchBlock(self, positions, frame_width, frame_height, current_time) ==
    IF detect_open_hand(positions)
    THEN PressHoldDrag(self, positions, frame_width, frame_height,
                       current_time)
    ELSE PinchRelease(self)

\* b, or what next yields from b's fields when b did not return.
Then(b, next(_)) == IF b.returned THEN b ELSE next(b.self)

\* Lines 277-376: the ordered pass pinch, fist, index only, thumb + index
\* open, open hand.
OrderedPass(self, positions, frame_width, frame_height, current_time) ==
    LET Fist(s) == FistBlock(s, positions, current_time)
        Move(s) == MoveBlock(s, positions, frame_width, frame_height)
        ThumbIndex(s) == ThumbIndexOpenBlock(s, positions)
        OpenHand(s) == OpenHandBlock(s, positions, frame_height, current_time)
        b1 == PinchBlock(self, positions, frame_width, frame_height,
                         current_time)
        b2 == Then(b1, Fist)
        b3 == Then(b2, Move)
        b4 == Then(b3, ThumbIndex)
    IN Then(b4, OpenHand)

\* Lines 378-534: the repeated blocks and the final Idle.
RepeatedBlocks(self, positions, frame_width, frame_height, current_time) ==
    LET Pinch(s) == PinchBlock(s, positions, frame_width, frame_height,
                               current_time)
        Fist(s) == FistBlock(s, positions, current_time)
        Move(s) == MoveBlock(s, positions, frame_width, frame_height)
        ThumbIndex(s) == ThumbIndexOpenBlock(s, positions)
        OpenHandPinch(s) == OpenHandPinchBlock(s, positions, frame_width,
                                               frame_height, current_time)
        Idle(s) == Return(s, "Idle", "none", None)
        c1 == ThumbIndexOpenBlock(self, positions)
        c2 == Then(c1, Pinch)
        c3 == Then(c2, Fist)
        c4 == Then(c3, Move)
        c5 == Then(c4, ThumbIndex)
        c6 == Then(c5, OpenHandPinch)
        c7 == Then(c6, Fist)
        c8 == Then(c7, Move)
    IN Then(c8, Idle)

\* recognize_gesture without lines 378-527: the ordered pass, then the
\* final Idle of lines 528-534.
SinglePass(self, positions, frame_width, frame_height, current_time) ==
    LET Idle(s) == Return(s, "Idle", "none", None)
    IN Then(OrderedPass(self, positions, frame_width, frame_height,
                        current_time), Idle)

NoHandReset_KeepPinch(self) ==
    [self EXCEPT !.current_gesture = "None", !.prev_open_hand_y = None]
\* Lines 256-258: the fields assigned when no hand is seen.
NoHandReset(self) ==
    [self EXCEPT !.current_gesture = "None",
                 !.prev_open_hand_y = None,
                 !.is_pinching = FALSE]

\* recognize_gesture: [self, result].
recognize_gesture(self, results, frame_shape, current_time) ==
    IF ~results.multi_hand_landmarks
    THEN [self |-> NoHandReset(self), result |-> Result("none", None)]
    ELSE
      LET positions == results.landmarks
          frame_height == frame_shape[1]
          frame_width == frame_shape[2]
          Repeated(s) == RepeatedBlocks(s, positions, frame_width,
                                        frame_height, current_time)
          b == Then(OrderedPass(self, positions, frame_width, frame_height,
                                current_time), Repeated)
      IN [self |-> b.self, result |-> b.result]

(***************************************************************************)
(* mouse_controller.py                                                     *)
(*                                                                         *)
(* self is the record of the MouseController's fields.  prev_mouse_x and   *)
(* prev_mouse_y hold floats in the source; here they count 1/SubPixel of   *)
(* a pixel, which is exact for as many halvings as a run has frames.       *)
(***************************************************************************)
SubPixel == 2 ^ MaxFrames

\* max(0, min(size - 1, value)) and int(...), on value = num / den.
ClampToScreen_NoClamp(num, den, size) == num \div den
ClampToScreen(num, den, size) == Max(0, Min((size - 1) * den, num)) \div den

map_coordinates(self, hand_x, hand_y, frame_width, frame_height) ==
    LET den_x == 100 * frame_width
        den_y == 100 * frame_height
        \* SCREEN_PADDING + norm * map_size, over the denominator
        num_x == SCREEN_PADDING * den_x + hand_x * self.map_width
        num_y == SCREEN_PADDING * den_y + hand_y * self.map_height
    IN <<ClampToScreen(num_x, den_x, self.screen_width),
         ClampToScreen(num_y, den_y, self.screen_height)>>

\* SMOOTH_FACTOR * prev + (1 - SMOOTH_FACTOR) * current
Blend_Lagging(prev, current) == (SMOOTH_FACTOR * prev) \div 100 + current
Blend(prev, current) ==
    (SMOOTH_FACTOR * prev + (100 - SMOOTH_FACTOR) * current * SubPixel)
        \div 100

\* smooth_coordinates: [self, xy].
smooth_coordinates(self, current_x, current_y) ==
    IF self.prev_mouse_x = None \/ self.prev_mouse_y = None
    THEN [self |-> [self EXCEPT !.prev_mouse_x = <<current_x * SubPixel>>,
                                !.prev_mouse_y = <<current_y * SubPixel>>],
          xy |-> <<current_x, current_y>>]
    ELSE LET smooth_x == Blend(self.prev_mouse_x[1], current_x)
             smooth_y == Blend(self.prev_mouse_y[1], current_y)
         IN [self |-> [self EXCEPT !.prev_mouse_x = <<smooth_x>>,
                                   !.prev_mouse_y = <<smooth_y>>],
             xy |-> <<smooth_x \div SubPixel, smooth_y \div SubPixel>>]

reset_smoothing_Keep(self) == self
reset_smoothing(self) ==
    [self EXCEPT !.prev_mouse_x = None, !.prev_mouse_y = None]

\* A backend call and the exception that leaves the method making it.
Call(op, args, outcome, raised) ==
    [op |-> op, args |-> args, outcome |-> outcome, raised |-> raised]

NoCall == Call("none", None, "ok", "none")

\* try: ... except pyautogui.FailSafeException: print(...); raise
\* Every exception of the call leaves move_mouse.
ReraiseFailSafe(outcome) == IF outcome = "ok" THEN "none" ELSE outcome

\* try: ... except Exception as e: print(...)
\* No exception of the call leaves the method.
PrintException(outcome) == "none"

\* The methods below yield [self, call].
move_mouse(self, hand_x, hand_y, frame_width, frame_height, outcome) ==
    LET screen == map_coordinates(self, hand_x, hand_y, frame_width,
                                  frame_height)
        smooth == smooth_coordinates(self, screen[1], screen[2])
    IN [self |-> smooth.self,
        call |-> Call("moveTo", smooth.xy, outcome, ReraiseFailSafe(outcome))]

left_press(self, outcome) ==
    [self |-> self,
     call |-> Call("mouseDown", <<"left">>, outcome, PrintException(outcome))]

left_release(self, outcome) ==
    [self |-> self,
     call |-> Call("mouseUp", <<"left">>, outcome, PrintException(outcome))]

right_click(self, outcome) ==
    [self |-> self,
     call |-> Call("click", <<"right">>, outcome, PrintException(outcome))]

scroll(self, direction, outcome) ==
    LET scroll_amount == SCROLL_SENSITIVITY * 3 IN
    IF direction = <<"up">>
    THEN [self |-> self,
          call |-> Call("scroll", <<scroll_amount>>, outcome,
                        PrintException(outcome))]
    ELSE IF direction = <<"down">>
    THEN [self |-> self,
          call |-> Call("scroll", <<-scroll_amount>>, outcome,
                        PrintException(outcome))]
    ELSE [self |-> self, call |-> NoCall]

execute_gesture(self, gesture_result, frame_width, frame_height, outcome) ==
    LET gesture_type == gesture_result.type
        gesture_data == gesture_result.data
    IN IF gesture_type = "move" /\ gesture_data # None
       THEN move_mouse(self, gesture_data[1], gesture_data[2], frame_width,
                       frame_height, outcome)
       ELSE IF gesture_type = "left_press" THEN left_press(self, outcome)
       ELSE IF gesture_type = "left_hold" THEN [self |-> self, call |-> NoCall]
       ELSE IF gesture_type = "pinch_drag" /\ gesture_data # None
       THEN move_mouse(self, gesture_data[1], gesture_data[2], frame_width,
                       frame_height, outcome)
       ELSE IF gesture_type = "left_release" THEN left_release(self, outcome)
       ELSE IF gesture_type = "right_click" THEN right_click(self, outcome)
       ELSE IF gesture_type = "scroll" /\ gesture_data # None
       THEN scroll(self, gesture_data, outcome)
       ELSE [self |-> self, call |-> NoCall]

\* Whether execute_gesture calls the backend for this result.
CallsBackend(gesture_result) ==
    gesture_result.type \in {"move", "left_press", "pinch_drag",
                             "left_release", "right_click", "scroll"}

(***************************************************************************)
(* main.py: the frame loop                                                 *)
(***************************************************************************)
VARIABLES
    loop,              \* "running", or why the while loop was left
    clock,             \* the last reading of time.time()
    frame_shape,       \* frame.shape[:2] of the captured frames
    results,           \* the hand-tracking results of the last frame
    gesture_detector,  \* the GestureDetector's fields
    mouse_controller,  \* the MouseController's fields
    gesture_result,    \* the dictionary recognize_gesture returned
    backend_call,      \* the backend call of the last frame
    frame_count,       \* frames processed
    press_outstanding  \* history: a left_press not yet followed by a
                       \* left_release

vars == <<loop, clock, frame_shape, results, gesture_detector,
          mouse_controller, gesture_result, backend_call, frame_count,
          press_outstanding>>

\* GestureDetector.__init__, lines 38-50.
GestureDetectorInit ==
    [prev_open_hand_y |-> None,
     last_click_time |-> 0,
     last_right_click_time |-> 0,
     last_scroll_time |-> 0,
     is_pinching |-> FALSE,
     pinch_start_time |-> 0,
     current_gesture |-> "None"]

\* MouseController.__init__.
MouseControllerInit(size) ==
    [screen_width |-> size[1],
     screen_height |-> size[2],
     prev_mouse_x |-> None,
     prev_mouse_y |-> None,
     map_width |-> size[1] - 2 * SCREEN_PADDING,
     map_height |-> size[2] - 2 * SCREEN_PADDING]

\* The state when the loop is entered, on a screen of one of the given
\* sizes.
InitOn(sizes) ==
    /\ loop = "running"
    /\ clock = StartTime
    /\ frame_shape \in FrameShapes
    /\ results = NoHand
    /\ gesture_detector = GestureDetectorInit
    /\ \E size \in sizes : mouse_controller = MouseControllerInit(size)
    /\ gesture_result = Result("none", None)
    /\ backend_call = NoCall
    /\ frame_count = 0
    /\ press_outstanding = FALSE

Init == InitOn(ScreenSizes)

IsFailSafe_Any(raised) == raised # "none"
\* "FailSafeException" in str(type(e))
IsFailSafe(raised) == raised = "FailSafeException"

\* Lines 99-115: [self, call, loop] from the controller's fields, the
\* result of the frame and what the backend does if it is called.
Dispatch(self, result, outcome) ==
    IF result.type # "none"
    THEN LET done == execute_gesture(self, result, FRAME_WIDTH, FRAME_HEIGHT,
                                     outcome)
         IN [self |-> done.self, call |-> done.call,
             loop |-> IF IsFailSafe(done.call.raised)
                      THEN "failsafe" ELSE "running"]
    ELSE [self |-> reset_smoothing(self), call |-> NoCall, loop |-> "running"]

\* One pass of the while loop that reaches its end: lines 78-177, with the
\* frame read, no exit key pressed and the window open.
Frame(hand, step, outcome) ==
    /\ loop = "running"
    /\ frame_count < MaxFrames
    /\ LET current_time == clock + step
           seen == recognize_gesture(gesture_detector, hand, frame_shape,
                                     current_time)
           done == Dispatch(mouse_controller, seen.result, outcome)
       IN /\ clock' = current_time
          /\ results' = hand
          /\ gesture_detector' = seen.self
          /\ gesture_result' = seen.result
          /\ mouse_controller' = done.self
          /\ backend_call' = done.call
          /\ loop' = done.loop
          /\ press_outstanding' =
               IF seen.result.type = "left_press" THEN TRUE
               ELSE IF seen.result.type = "left_release" THEN FALSE
               ELSE press_outstanding
    /\ frame_count' = frame_count + 1
    /\ UNCHANGED frame_shape

\* cap.read() fails (lines 78-81): the loop is left before the frame is
\* looked at.
ReadFails ==
    /\ loop = "running"
    /\ loop' = "read_failed"
    /\ UNCHANGED <<clock, frame_shape, results, gesture_detector,
                   mouse_controller, gesture_result, backend_call,
                   frame_count, press_outstanding>>

\* ESC or Q is pressed, or the window is closed (lines 162-177): the loop
\* is left at the end of a pass.
Quit ==
    /\ loop = "running"
    /\ frame_count > 0
    /\ loop' = "quit"
    /\ UNCHANGED <<clock, frame_shape, results, gesture_detector,
                   mouse_controller, gesture_result, backend_call,
                   frame_count, press_outstanding>>

\* The backend's outcome is drawn when the frame's result makes
\* execute_gesture call the backend.
OutcomesOf(hand, step, outcomes) ==
    IF CallsBackend(recognize_gesture(gesture_detector, hand, frame_shape,
                                      clock + step).result)
    THEN outcomes ELSE {"ok"}

\* A frame whose hand, clock step and backend outcome are drawn from the
\* given sets.
FrameOf(hands, steps, outcomes) ==
    \E hand \in hands, step \in steps :
        \E outcome \in OutcomesOf(hand, step, outcomes) :
            Frame(hand, step, outcome)

Next == FrameOf(HandResults, ClockSteps, Outcomes) \/ ReadFails \/ Quit

Spec == Init /\ [][Next]_vars

(***************************************************************************)
(* Bounded instances of Spec: the same loop with the hands, the clock      *)
(* steps and the backend outcomes drawn from subsets, so that runs of      *)
(* MaxFrames frames can be explored exhaustively.                          *)
(***************************************************************************)
\* Hands with all five fingertips curled: pinched (thumb on index) or a
\* plain fist.
ClosedHands ==
    { p \in Landmarks : /\ p.thumb < 10 /\ p.index < 10 /\ p.middle < 10
                        /\ p.ring < 10 /\ p.pinky < 10 }

\* Hands whose thumb tip is on the index tip, whatever the other fingers
\* do.
PinchedHands == { p \in Landmarks : detect_pinch(p) }

\* Hands pointing with the index finger alone (thumb curled).
PointingHands ==
    { p \in Landmarks : /\ p.thumb < 10 /\ p.index > 15 /\ p.middle < 10
                        /\ p.ring < 10 /\ p.pinky < 10 }

NextPinch ==
    FrameOf(ResultsOf(PinchedHands \cup ClosedHands \cup PointingHands),
            {1, 20}, {"ok"})
        \/ ReadFails \/ Quit

SpecPinch == Init /\ [][NextPinch]_vars

\* Hands with all five fingers extended, and the plain fist.
SpreadHands ==
    { p \in Landmarks : /\ p.thumb > 15 /\ p.index > 15 /\ p.middle > 15
                        /\ p.ring > 15 /\ p.pinky > 15 }

Fists == { p \in ClosedHands : p.thumb_index >= PINCH_THRESHOLD }

NextScroll ==
    FrameOf(ResultsOf(SpreadHands \cup Fists), {1, 2}, {"ok"})
        \/ ReadFails \/ Quit

SpecScroll == Init /\ [][NextScroll]_vars

\* The pointing hands and the closed hands; the backend may fail.

NextPointer ==
    FrameOf(ResultsOf(PointingHands \cup ClosedHands), {1, 21}, Outcomes)
        \/ ReadFails \/ Quit

SpecPointer == Init /\ [][NextPointer]_vars

\* Index fingertip positions inside the frame, on its edges and outside it
\* (the hand-tracking model extrapolates landmarks beyond the image).
WideTips == {<<-10, 110>>, <<0, 100>>, <<20, 30>>, <<80, 70>>}

\* A pointing hand and a pinched closed hand at each of these positions.
MappedHands ==
    { [thumb_index |-> q[1], thumb |-> 5, index |-> q[2], middle |-> 5,
       ring |-> 5, pinky |-> 5, palm_y |-> 40, index_tip |-> tip] :
        q \in {<<14, 18>>, <<3, 5>>}, tip \in WideTips }

MappedScreens == {<<1920, 1080>>, <<800, 600>>}

NextMap ==
    FrameOf(ResultsOf(MappedHands), {1, 21}, {"ok"}) \/ ReadFails \/ Quit

SpecMap == InitOn(MappedScreens) /\ [][NextMap]_vars

\* Pointing hands, the spread hands that neither the pinch test nor the
\* thumb-and-index test takes, and closed hands, a twentieth or a tenth of
\* a second apart: movement between clicks and scrolls.
ScrollingHands ==
    { p \in SpreadHands :
        ~detect_pinch(p) /\ ~detect_thumb_index_open(p) }

NextMove ==
    FrameOf(ResultsOf(PointingHands \cup ScrollingHands \cup ClosedHands),
            {1, 2}, {"ok"})
        \/ ReadFails \/ Quit

SpecMove == Init /\ [][NextMove]_vars

\* Closed hands (pinches and the fist) under a wall clock that is set back
\* by a twentieth of a second between some frames.
NextClock ==
    FrameOf(ResultsOf(ClosedHands), {-1, 1, 2}, {"ok"}) \/ ReadFails \/ Quit

SpecClock == Init /\ [][NextClock]_vars

\* The outcomes of the five pose tests of recognize_gesture on a hand.
PoseTests(p) ==
    <<detect_pinch(p), detect_fist(p), detect_only_index_up(p),
      detect_thumb_index_open(p), detect_open_hand(p)>>

\* One sampled hand for every combination of outcomes of the five pose
\* tests that the sampled hands give, a twentieth of a second or a second
\* apart.
PoseHands ==
    { (CHOOSE q \in Landmarks : PoseTests(q) = PoseTests(p)) :
        p \in Landmarks }

NextHands ==
    FrameOf(ResultsOf(PoseHands), {1, 20}, {"ok"}) \/ ReadFails \/ Quit

SpecHands == Init /\ [][NextHands]_vars

\* A hand in every frame: closed hands (pinches and the fist) and scrolling
\* open hands, a twentieth or a tenth of a second apart.
NextSpacing ==
    FrameOf(ResultsOf(ClosedHands \cup ScrollingHands) \ {NoHand},
            {1, 2}, {"ok"})
        \/ ReadFails \/ Quit

SpecSpacing == Init /\ [][NextSpacing]_vars

(***************************************************************************)
(* Properties.  The frame a step processes is results', read at clock';    *)
(* the unprimed variables are the fields before that frame.                *)
(***************************************************************************)
\* The step processes a frame in which a hand is seen.
HandFrame == frame_count' = frame_count + 1 /\ results'.multi_hand_landmarks

\* Thumb-index distance below pinchThreshold.
PinchPose(lm) == lm.thumb_index < PINCH_THRESHOLD

\* All five fingertip-palm distances above the open-hand extended bounds.
FiveExtended(lm) ==
    /\ lm.thumb > 13 /\ lm.index > 15
    /\ lm.middle > 14 /\ lm.ring > 14 /\ lm.pinky > 14

\* The fist criteria of the pose classifier.
FistPose(lm) ==
    /\ lm.thumb + lm.index + lm.middle + lm.ring + lm.pinky
         < 5 * FIST_THRESHOLD
    /\ \A d \in {lm.thumb, lm.index, lm.middle, lm.ring, lm.pinky} :
         d < 2 * FIST_THRESHOLD
    /\ lm.thumb < 10 /\ lm.index < 10

\* The index fingertip of the frame in pixels of the captured frame.
IndexTipOf(lm) ==
    <<lm.index_tip[1] * frame_shape[2], lm.index_tip[2] * frame_shape[1]>>

OpenHandGestures ==
    {"Open Hand Ready", "Open Hand Swipe Down (Scroll UP)",
     "Open Hand Swipe Up (Scroll DOWN)"}

\* C1: pinch lifecycle.  On a hand frame whose pose is Pinch: with pinch
\* not active and the click cooldown over, the command is LeftPress and
\* the pinch starts at that frame's time t0; with pinch active, the command
\* is LeftHold while now - t0 <= 1.0 s and Drag carrying the frame's index
\* fingertip position when now - t0 > 1.0 s, and t0 is kept.  On the first
\* hand frame whose pose is not Pinch while pinch is active, the command is
\* LeftRelease, from the hold phase and from the drag phase alike.
C1_PinchLifecycle ==
    [][HandFrame =>
        LET lm == results'.landmarks
            self == gesture_detector
            t0 == gesture_detector.pinch_start_time
            kept == /\ gesture_detector'.is_pinching
                    /\ gesture_detector'.pinch_start_time = t0
        IN /\ ( /\ PinchPose(lm) /\ ~self.is_pinching
                /\ clock' - self.last_click_time > CLICK_COOLDOWN )
                => /\ gesture_result' = [type |-> "left_press", data |-> None]
                   /\ gesture_detector'.is_pinching
                   /\ gesture_detector'.pinch_start_time = clock'
           /\ (PinchPose(lm) /\ self.is_pinching /\ clock' - t0 <= DRAG_DELAY)
                => /\ gesture_result' = [type |-> "left_hold", data |-> None]
                   /\ kept
           /\ (PinchPose(lm) /\ self.is_pinching /\ clock' - t0 > DRAG_DELAY)
                => /\ gesture_result' =
                        [type |-> "pinch_drag", data |-> IndexTipOf(lm)]
                   /\ kept
           /\ (~PinchPose(lm) /\ self.is_pinching)
                => /\ gesture_result' =
                        [type |-> "left_release", data |-> None]
                   /\ ~gesture_detector'.is_pinching
    ]_vars

\* C1 witness: a pinch held for more than 1.0 s is dragging.
C1_Witness ==
    /\ gesture_result.type = "pinch_drag"
    /\ gesture_detector.is_pinching
    /\ clock - gesture_detector.pinch_start_time > DRAG_DELAY
    /\ press_outstanding

\* C2: pinchActive is true iff a LeftPress has been emitted and no
\* LeftRelease has been emitted since.
C2_PinchActiveIffPressOutstanding ==
    gesture_detector.is_pinching <=> press_outstanding

\* C3: on every hand frame whose thumb-index distance is below
\* pinchThreshold the command is LeftPress, LeftHold, Drag or None; it is
\* never RightClick, Move or Scroll.
C3_PinchHasPriority ==
    ( /\ frame_count > 0
      /\ results.multi_hand_landmarks
      /\ PinchPose(results.landmarks) )
    => /\ gesture_result.type \in
            {"left_press", "left_hold", "pinch_drag", "none"}
       /\ gesture_result.type \notin {"right_click", "move", "scroll"}

\* C4: after every frame on which the pointer mapper is not called (the
\* command is neither Move nor Drag), prevX and prevY are absent.
C4_SmoothingResetContract ==
    (frame_count > 0 /\ gesture_result.type \notin {"move", "pinch_drag"})
    => /\ mouse_controller.prev_mouse_x = None
       /\ mouse_controller.prev_mouse_y = None

\* C5: openHandRefY is defined at the end of a frame only if that frame
\* was a hand frame classified as OpenHand.
C5_RefOnlyWhileOpenHand ==
    gesture_detector.prev_open_hand_y # None
    => /\ results.multi_hand_landmarks
       /\ FiveExtended(results.landmarks)
       /\ ~FistPose(results.landmarks)

\* C6: a safety stop signalled by the backend during any command leaves
\* execute_gesture and ends the frame loop.
C6_SafetyStopIsFatal ==
    backend_call.outcome = "FailSafeException"
    => /\ backend_call.raised = "FailSafeException"
       /\ loop = "failsafe"

\* C7: in an uninterrupted run of OpenHand frames (all five fingers
\* extended, not pinching), a frame after the first whose palm Y differs
\* from the reference by more than the swipe threshold and whose time since
\* lastScrollTime exceeds the scroll cooldown emits Scroll.
C7_SwipeContinuity ==
    [][( /\ HandFrame
         /\ FiveExtended(results'.landmarks)
         /\ ~PinchPose(results'.landmarks)
         /\ frame_count > 0
         /\ results.multi_hand_landmarks
         /\ FiveExtended(results.landmarks)
         /\ ~PinchPose(results.landmarks)
         /\ gesture_detector.prev_open_hand_y # None
         /\ LET delta == gesture_detector.prev_open_hand_y[1]
                           - results'.landmarks.palm_y * frame_shape[1]
                threshold == frame_shape[1] * SWIPE_THRESHOLD
            IN delta > threshold \/ delta < -threshold
         /\ clock' - gesture_detector.last_scroll_time > SCROLL_COOLDOWN )
        => gesture_result'.type = "scroll"
    ]_vars

\* C8: a hand frame with all five fingertip-palm distances above the
\* open-hand bounds and the thumb-index distance not below pinchThreshold,
\* with pinch not active, is handled in the open-hand branch: it sets or
\* uses openHandRefY.
C8_FiveExtendedIsOpenHand ==
    [][( /\ HandFrame
         /\ FiveExtended(results'.landmarks)
         /\ ~PinchPose(results'.landmarks)
         /\ ~gesture_detector.is_pinching )
        => /\ gesture_detector'.current_gesture \in OpenHandGestures
           /\ gesture_detector'.prev_open_hand_y # None
    ]_vars

\* C9: on every frame that emits Scroll, with delta = openHandRefY -
\* currentPalmY taken before the reference is updated, the command is
\* Scroll(up) if delta > 0 and Scroll(down) otherwise.
C9_ScrollUpIfDeltaPositive ==
    [][(HandFrame /\ gesture_result'.type = "scroll")
        => /\ gesture_detector.prev_open_hand_y # None
           /\ LET delta == gesture_detector.prev_open_hand_y[1]
                             - results'.landmarks.palm_y * frame_shape[1]
              IN gesture_result'.data =
                   IF delta > 0 THEN <<"up">> ELSE <<"down">>
    ]_vars

\* C9 as amended: on every frame that emits Scroll, with delta =
\* openHandRefY - currentPalmY taken before the reference is updated, the
\* command is Scroll(down) if delta > 0 and Scroll(up) otherwise.
C9_ScrollDownIfDeltaPositive ==
    [][(HandFrame /\ gesture_result'.type = "scroll")
        => /\ gesture_detector.prev_open_hand_y # None
           /\ LET delta == gesture_detector.prev_open_hand_y[1]
                             - results'.landmarks.palm_y * frame_shape[1]
              IN gesture_result'.data =
                   IF delta > 0 THEN <<"down">> ELSE <<"up">>
    ]_vars

\* C9 witness: a Scroll(down) has been emitted and the reference is the
\* palm Y of that frame.
C9_Witness ==
    /\ gesture_result = [type |-> "scroll", data |-> <<"down">>]
    /\ gesture_detector.prev_open_hand_y
         = <<results.landmarks.palm_y * frame_shape[1]>>

\* C10: on every frame that emits Scroll, a palm above the reference in
\* the image (current palm Y smaller than openHandRefY) gives Scroll(down)
\* and a palm below it (current palm Y larger) gives Scroll(up).
C10_InvertedScroll ==
    [][(HandFrame /\ gesture_result'.type = "scroll")
        => /\ gesture_detector.prev_open_hand_y # None
           /\ LET ref_y == gesture_detector.prev_open_hand_y[1]
                  palm_y == results'.landmarks.palm_y * frame_shape[1]
              IN /\ palm_y < ref_y => gesture_result'.data = <<"down">>
                 /\ palm_y > ref_y => gesture_result'.data = <<"up">>
                 /\ palm_y # ref_y
    ]_vars

\* C10 witness: a Scroll(up) has been emitted for a palm at the lowest
\* sampled position.
C10_Witness ==
    /\ gesture_result = [type |-> "scroll", data |-> <<"up">>]
    /\ gesture_detector.current_gesture = "Open Hand Swipe Down (Scroll UP)"
    /\ \A y \in PalmYs : results.landmarks.palm_y >= y

\* C11: fist cooldown suppression.  On a hand frame whose pose is Fist and
\* not Pinch, with pinch not active, the command is RightClick and
\* lastRightClickTime becomes the frame's time if the time since
\* lastRightClickTime exceeds the click cooldown; otherwise the command is
\* None and lastRightClickTime is kept.  Every RightClick, whatever frame
\* emits it, comes more than the click cooldown after the previous one.
C11_FistCooldown ==
    [][HandFrame =>
        LET lm == results'.landmarks
            last == gesture_detector.last_right_click_time
        IN /\ ( /\ FistPose(lm) /\ ~PinchPose(lm)
                /\ ~gesture_detector.is_pinching )
                => IF clock' - last > CLICK_COOLDOWN
                   THEN /\ gesture_result' =
                             [type |-> "right_click", data |-> None]
                        /\ gesture_detector'.last_right_click_time = clock'
                   ELSE /\ gesture_result' = [type |-> "none", data |-> None]
                        /\ gesture_detector'.last_right_click_time = last
           /\ gesture_result'.type = "right_click"
                => /\ clock' - last > CLICK_COOLDOWN
                   /\ gesture_detector'.last_right_click_time = clock'
           /\ gesture_result'.type # "right_click"
                => gesture_detector'.last_right_click_time = last
    ]_vars

\* C11 witness: a Fist frame exactly the click cooldown after a RightClick
\* was answered with None.
C11_Witness ==
    /\ results.multi_hand_landmarks
    /\ FistPose(results.landmarks) /\ ~PinchPose(results.landmarks)
    /\ gesture_detector.current_gesture = "Fist (Cooldown)"
    /\ gesture_result.type = "none"
    /\ gesture_detector.last_right_click_time > StartTime
    /\ clock - gesture_detector.last_right_click_time = CLICK_COOLDOWN

\* The screen pixel the mapper gives for a frame's index fingertip, written
\* out: padding + norm * (screen size - 2 * padding) with norm the
\* fingertip's pixel position over the frame size handed to the mapper,
\* limited to [0, screen size - 1] and truncated.
TargetPixel(pos, frame_size, screen_size) ==
    LET den == 100 * frame_size
        num == SCREEN_PADDING * den + pos * (screen_size - 2 * SCREEN_PADDING)
    IN IF num < 0 THEN 0
       ELSE IF num > (screen_size - 1) * den THEN screen_size - 1
       ELSE num \div den

FreshTarget(lm) ==
    <<TargetPixel(IndexTipOf(lm)[1], FRAME_WIDTH,
                  mouse_controller.screen_width),
      TargetPixel(IndexTipOf(lm)[2], FRAME_HEIGHT,
                  mouse_controller.screen_height)>>

SmoothingAbsent(mc) == mc.prev_mouse_x = None /\ mc.prev_mouse_y = None

\* C12: reacquisition resets smoothing, stated step by step.  A frame with
\* no hand leaves the smoothing state absent; a frame whose command is
\* neither Move nor Drag keeps an absent smoothing state absent; and a Move
\* dispatched with the smoothing state absent moves the pointer to exactly
\* the freshly mapped position of that frame's index fingertip.
C12_ReacquisitionIsFresh ==
    [][frame_count' = frame_count + 1 =>
        /\ ~results'.multi_hand_landmarks => SmoothingAbsent(mouse_controller')
        /\ ( /\ SmoothingAbsent(mouse_controller)
             /\ gesture_result'.type \notin {"move", "pinch_drag"} )
             => SmoothingAbsent(mouse_controller')
        /\ ( /\ SmoothingAbsent(mouse_controller)
             /\ results'.multi_hand_landmarks
             /\ gesture_result'.type = "move" )
             => /\ backend_call'.op = "moveTo"
                /\ backend_call'.args = FreshTarget(results'.landmarks)
    ]_vars

\* C12 witness: a press was cut off by a frame with no hand (the press is
\* outstanding and pinch is not active), and the last frame of the run is a
\* Move to the freshly mapped position.
C12_Witness ==
    /\ frame_count = MaxFrames
    /\ press_outstanding /\ ~gesture_detector.is_pinching
    /\ gesture_result.type = "move"
    /\ backend_call.op = "moveTo"
    /\ backend_call.args = FreshTarget(results.landmarks)

\* C13: no-hand reset.  A frame with no hand emits None and leaves pinch
\* not active and openHandRefY absent, whatever the state before it.  The
\* hand frame that follows it is never answered with LeftHold, Drag or
\* LeftRelease; if its pose is Pinch and the click cooldown is over it is
\* answered with LeftPress and starts a new pinch at that frame's time.
C13_NoHandReset ==
    [][frame_count' = frame_count + 1 =>
        /\ ~results'.multi_hand_landmarks
             => /\ gesture_result' = [type |-> "none", data |-> None]
                /\ ~gesture_detector'.is_pinching
                /\ gesture_detector'.prev_open_hand_y = None
        /\ ( /\ frame_count > 0
             /\ ~results.multi_hand_landmarks
             /\ results'.multi_hand_landmarks )
             => /\ gesture_result'.type
                     \notin {"left_hold", "pinch_drag", "left_release"}
                /\ ( /\ PinchPose(results'.landmarks)
                     /\ clock' - gesture_detector.last_click_time
                          > CLICK_COOLDOWN )
                     => /\ gesture_result'.type = "left_press"
                        /\ gesture_detector'.is_pinching
                        /\ gesture_detector'.pinch_start_time = clock'
    ]_vars

\* C13 witness: a frame with no hand came while a pinch was active (its
\* press is outstanding) and left pinch not active.
C13_Witness ==
    /\ frame_count > 0
    /\ ~results.multi_hand_landmarks
    /\ press_outstanding
    /\ gesture_detector.pinch_start_time > StartTime
    /\ ~gesture_detector.is_pinching
    /\ gesture_detector.prev_open_hand_y = None

\* C14: other gestures are not evaluated while pinch is active.  On every
\* hand frame that begins with pinch active the command is LeftHold, Drag
\* or LeftRelease, and lastRightClickTime, lastScrollTime and openHandRefY
\* are left as they were.
C14_PinchActiveShadowsOthers ==
    [][(HandFrame /\ gesture_detector.is_pinching) =>
        /\ gesture_result'.type
             \in {"left_hold", "pinch_drag", "left_release"}
        /\ gesture_detector'.last_right_click_time
             = gesture_detector.last_right_click_time
        /\ gesture_detector'.last_scroll_time
             = gesture_detector.last_scroll_time
        /\ gesture_detector'.prev_open_hand_y
             = gesture_detector.prev_open_hand_y
    ]_vars

\* C14 witness: a Fist frame with the right-click cooldown over came while
\* a pinch was active and was answered with LeftRelease.
C14_Witness ==
    /\ results.multi_hand_landmarks
    /\ FistPose(results.landmarks) /\ ~PinchPose(results.landmarks)
    /\ gesture_result.type = "left_release"
    /\ clock - gesture_detector.last_right_click_time > CLICK_COOLDOWN
    /\ ~press_outstanding

\* C15: a transient backend failure is not fatal and does not touch the
\* session.  On a frame whose backend call fails with an error other than
\* the safety stop the loop keeps running, the recogniser's fields are
\* those the frame's recognition alone gives, and the controller's fields
\* are those the same dispatch gives when the call succeeds: the next frame
\* starts from the state it would start from after a success.
C15_TransientFailureNonFatal ==
    [][(frame_count' = frame_count + 1 /\ backend_call'.outcome = "OSError")
        => /\ loop' = "running"
           /\ \A f \in {"is_pinching", "pinch_start_time", "last_click_time",
                        "last_right_click_time", "last_scroll_time",
                        "prev_open_hand_y"} :
                gesture_detector'[f] =
                  recognize_gesture(gesture_detector, results', frame_shape,
                                    clock').self[f]
           /\ mouse_controller' =
                Dispatch(mouse_controller, gesture_result', "ok").self
    ]_vars

\* C15 witness: pyautogui.moveTo failed with an error other than the
\* safety stop, the error left move_mouse, and the loop is running with
\* frames still to come.
C15_Witness ==
    /\ backend_call.op = "moveTo"
    /\ backend_call.outcome = "OSError"
    /\ backend_call.raised = "OSError"
    /\ loop = "running"
    /\ frame_count < MaxFrames

SmoothingSettledAt(mc, lm) ==
    /\ mc.prev_mouse_x = <<FreshTarget(lm)[1] * SubPixel>>
    /\ mc.prev_mouse_y = <<FreshTarget(lm)[2] * SubPixel>>

\* C17: idempotence of repeated samples.  From an absent smoothing state an
\* IndexOnly sample yields Move to its freshly mapped position and leaves
\* the smoothing state at that position; and from a Move that left the
\* smoothing state at the freshly mapped position of its sample, the
\* identical sample on the next frame yields Move again, to the identical
\* coordinates, and leaves the smoothing state where it was.  By induction
\* every repetition moves to the coordinates of the first Move.
C17_RepeatedSampleIdempotent ==
    [][HandFrame =>
        LET lm == results'.landmarks
        IN /\ ( /\ SmoothingAbsent(mouse_controller)
                /\ ~gesture_detector.is_pinching
                /\ detect_only_index_up(lm) /\ ~PinchPose(lm) )
                => /\ gesture_result'.type = "move"
                   /\ backend_call'.op = "moveTo"
                   /\ backend_call'.args = FreshTarget(lm)
                   /\ SmoothingSettledAt(mouse_controller', lm)
           /\ ( /\ gesture_result.type = "move"
                /\ results.multi_hand_landmarks
                /\ SmoothingSettledAt(mouse_controller, results.landmarks)
                /\ results' = results )
                => /\ gesture_result'.type = "move"
                   /\ backend_call'.op = "moveTo"
                   /\ backend_call'.args = FreshTarget(lm)
                   /\ backend_call'.args = backend_call.args
                   /\ mouse_controller' = mouse_controller
    ]_vars

\* C17 witness: every frame of the session was a Move and the last one
\* went to the freshly mapped position of its sample with the smoothing
\* state at that position (the sample was repeated from the first frame).
C17_Witness ==
    /\ frame_count = MaxFrames
    /\ gesture_result.type = "move"
    /\ results.multi_hand_landmarks
    /\ backend_call.op = "moveTo"
    /\ backend_call.args = FreshTarget(results.landmarks)
    /\ SmoothingSettledAt(mouse_controller, results.landmarks)
    /\ IndexTipOf(results.landmarks)[1] # 0

\* C18: IndexOnly movement is continuous.  On every hand frame with pinch
\* not active whose pose meets the IndexOnly criteria and neither the Pinch
\* nor the Fist criteria, the command is Move carrying that frame's index
\* fingertip position, whatever the last left-click, right-click and
\* scroll times are, and none of the three times is changed.
C18_MoveHasNoCooldown ==
    [][(/\ HandFrame
        /\ ~gesture_detector.is_pinching
        /\ detect_only_index_up(results'.landmarks)
        /\ ~PinchPose(results'.landmarks)
        /\ ~FistPose(results'.landmarks))
        => /\ gesture_result'.type = "move"
           /\ gesture_result'.data = IndexTipOf(results'.landmarks)
           /\ gesture_detector'.last_click_time
                = gesture_detector.last_click_time
           /\ gesture_detector'.last_right_click_time
                = gesture_detector.last_right_click_time
           /\ gesture_detector'.last_scroll_time
                = gesture_detector.last_scroll_time
    ]_vars

\* C18 witness: a Move one frame after a Scroll and three frames after a
\* RightClick, inside the scroll cooldown and the click cooldown.
C18_Witness ==
    /\ gesture_result.type = "move"
    /\ gesture_result.data = IndexTipOf(results.landmarks)
    /\ gesture_detector.last_scroll_time > 0
    /\ clock - gesture_detector.last_scroll_time <= SCROLL_COOLDOWN
    /\ gesture_detector.last_right_click_time > 0
    /\ clock - gesture_detector.last_right_click_time <= CLICK_COOLDOWN

\* C19: cooldown timestamps are monotone.  Over every frame the last
\* left-click, right-click and scroll times do not decrease, the time read
\* by recognize_gesture is not earlier than the time read on the frame
\* before, and the elapsed durations it compares (time since the last left
\* click, right click and scroll, and since the pinch started) are not
\* negative.
C19_TimersMonotone ==
    [][HandFrame =>
        /\ gesture_detector'.last_click_time
             >= gesture_detector.last_click_time
        /\ gesture_detector'.last_right_click_time
             >= gesture_detector.last_right_click_time
        /\ gesture_detector'.last_scroll_time
             >= gesture_detector.last_scroll_time
        /\ clock' >= clock
        /\ clock' - gesture_detector.last_click_time >= 0
        /\ clock' - gesture_detector.last_right_click_time >= 0
        /\ clock' - gesture_detector.last_scroll_time >= 0
        /\ gesture_detector.is_pinching
             => clock' - gesture_detector.pinch_start_time >= 0
    ]_vars

\* C20: openHandRefY changes only when a scroll is emitted.  On a frame
\* handled in the open-hand branch with a reference already set, the
\* reference becomes the frame's palm height when the frame emits Scroll,
\* and is left as it was when the frame emits None (displacement within
\* the threshold, or beyond it with the scroll cooldown not elapsed).
C20_RefChangesOnlyOnScroll ==
    [][( /\ HandFrame
         /\ gesture_detector'.current_gesture \in OpenHandGestures
         /\ gesture_detector.prev_open_hand_y # None )
        => /\ gesture_result'.type = "scroll"
             => gesture_detector'.prev_open_hand_y
                  = <<results'.landmarks.palm_y * frame_shape[1]>>
           /\ gesture_result'.type = "none"
             => gesture_detector'.prev_open_hand_y
                  = gesture_detector.prev_open_hand_y
    ]_vars

\* C21: the duplicated gesture-check blocks are dead.  On every hand frame
\* recognize_gesture returns the command and leaves the session state that
\* the single ordered pass (Pinch, Fist, IndexOnly, ThumbIndexOpen,
\* OpenHand, then Idle) gives; LeftPress, LeftHold and Drag are emitted
\* only on frames whose thumb-index distance is below pinchThreshold, and
\* LeftRelease only on a frame without the pinch pose while pinch is
\* active, so none of them comes from the branch under the open-hand test.
C21_RepeatedBlocksDead ==
    [][HandFrame =>
        LET lm == results'.landmarks
            single == SinglePass(gesture_detector, lm, frame_shape[2],
                                 frame_shape[1], clock')
        IN /\ gesture_result' = single.result
           /\ gesture_detector' = single.self
           /\ gesture_result'.type \in {"left_press", "left_hold", "pinch_drag"}
                => PinchPose(lm)
           /\ gesture_result'.type = "left_release"
                => ~PinchPose(lm) /\ gesture_detector.is_pinching
    ]_vars

\* C21 witness: a frame that went through the whole ordered pass and the
\* repeated blocks to the final Idle: a pinch pose under the click cooldown
\* on a hand that no other pose test accepts.
C21_Witness ==
    /\ results.multi_hand_landmarks
    /\ PinchPose(results.landmarks)
    /\ gesture_detector.current_gesture = "Idle"
    /\ gesture_result.type = "none"
    /\ clock - gesture_detector.last_click_time <= CLICK_COOLDOWN
    /\ ~gesture_detector.is_pinching

\* C22: a pinch suppressed by the click cooldown is re-evaluated, not lost.
\* With pinch not active: a frame in the pinch pose at which now -
\* lastLeftClickTime does not exceed the click cooldown emits no LeftPress
\* and leaves pinch inactive and lastLeftClickTime as it was, and so does a
\* frame without a hand; a frame in the pinch pose at which now -
\* lastLeftClickTime exceeds the click cooldown emits LeftPress and sets
\* pinchStartTime to that frame's time.  So the first frame of a held pinch
\* pose at which the cooldown is over is the LeftPress, and the drag delay
\* counts from it.
C22_SuppressedPinchReevaluated ==
    [][(frame_count' = frame_count + 1 /\ ~gesture_detector.is_pinching) =>
        LET lm == results'.landmarks
            elapsed == clock' - gesture_detector.last_click_time
            pending == /\ gesture_result'.type # "left_press"
                       /\ ~gesture_detector'.is_pinching
                       /\ gesture_detector'.last_click_time
                            = gesture_detector.last_click_time
        IN /\ ~results'.multi_hand_landmarks => pending
           /\ ( /\ results'.multi_hand_landmarks /\ PinchPose(lm)
                /\ elapsed <= CLICK_COOLDOWN ) => pending
           /\ ( /\ results'.multi_hand_landmarks /\ PinchPose(lm)
                /\ elapsed > CLICK_COOLDOWN )
                => /\ gesture_result'.type = "left_press"
                   /\ gesture_detector'.is_pinching
                   /\ gesture_detector'.pinch_start_time = clock'
                   /\ gesture_detector'.last_click_time = clock'
    ]_vars

\* C22 witness: a LeftPress in the pinch pose after a pinch that the click
\* cooldown suppressed: in a session of pinched, closed and pointing hands
\* only a suppressed pinch of a spread hand reaches the open-hand branch
\* and sets the palm reference, which the LeftPress leaves in place.
C22_Witness ==
    /\ gesture_result.type = "left_press"
    /\ PinchPose(results.landmarks)
    /\ gesture_detector.prev_open_hand_y # None
    /\ gesture_detector.pinch_start_time = clock
    /\ gesture_detector.is_pinching

\* C23: minimum spacing of same-kind actions.  lastLeftClickTime is the
\* time of the latest LeftPress (it changes on no other frame) and a
\* LeftPress is emitted only more than the click cooldown after it;
\* lastScrollTime is the time of the latest Scroll and a Scroll is emitted
\* only more than the scroll cooldown after it.  So two LeftPress commands
\* are more than the click cooldown apart, whatever was released in
\* between, and two Scroll commands more than the scroll cooldown apart.
C23_MinimumSpacing ==
    [][(frame_count' = frame_count + 1) =>
        /\ IF gesture_result'.type = "left_press"
           THEN /\ clock' - gesture_detector.last_click_time > CLICK_COOLDOWN
                /\ gesture_detector'.last_click_time = clock'
           ELSE gesture_detector'.last_click_time
                  = gesture_detector.last_click_time
        /\ IF gesture_result'.type = "scroll"
           THEN /\ clock' - gesture_detector.last_scroll_time
                     > SCROLL_COOLDOWN
                /\ gesture_detector'.last_scroll_time = clock'
           ELSE gesture_detector'.last_scroll_time
                  = gesture_detector.last_scroll_time
    ]_vars

\* C23 witness: the second LeftPress of a session with a hand in every
\* frame: the third frame is a LeftPress and no frame was a RightClick or
\* reached the open-hand branch, so the first frame was a LeftPress and the
\* second its LeftRelease; the two are 0.2 s apart.
C23_Witness ==
    /\ frame_count = 3
    /\ gesture_result.type = "left_press"
    /\ gesture_detector.last_right_click_time = 0
    /\ gesture_detector.prev_open_hand_y = None
    /\ gesture_detector.last_click_time = clock
    /\ clock = StartTime + 6

\* C24: no stray pinch commands.  Pinch is active only after a LeftPress
\* with no LeftRelease since, and never after a frame without a hand;
\* LeftHold, Drag and LeftRelease are emitted only on frames that begin
\* with pinch active; every Drag comes more than 1.0 s after the LeftPress
\* that started the pinch; and on a frame that begins with pinch active and
\* is at most 1.0 s after that LeftPress the command is neither Move nor
\* Drag and the backend is not asked to move the pointer.
C24_NoStrayPinchCommands ==
    [][(frame_count' = frame_count + 1) =>
        LET since == clock' - gesture_detector.pinch_start_time
        IN /\ gesture_detector'.is_pinching
                => /\ press_outstanding'
                   /\ results'.multi_hand_landmarks
                   /\ \/ gesture_result'.type = "left_press"
                      \/ gesture_detector.is_pinching
           /\ gesture_result'.type
                \in {"left_hold", "pinch_drag", "left_release"}
                => gesture_detector.is_pinching /\ press_outstanding
           /\ gesture_result'.type = "pinch_drag"
                => /\ since > DRAG_DELAY
                   /\ gesture_detector.pinch_start_time
                        = gesture_detector.last_click_time
           /\ gesture_detector.is_pinching
                => /\ gesture_result'.type # "move"
                   /\ since <= DRAG_DELAY
                        => /\ gesture_result'.type # "pinch_drag"
                           /\ backend_call'.op # "moveTo"
    ]_vars

\* C24 witness: a Drag 1.05 s after the LeftPress of a pinch that is still
\* active, the earliest a Drag can come with frames 0.05 s or 1 s apart.
C24_Witness ==
    /\ gesture_result.type = "pinch_drag"
    /\ gesture_detector.is_pinching
    /\ press_outstanding
    /\ clock - gesture_detector.pinch_start_time = DRAG_DELAY + 1
    /\ backend_call.op = "moveTo"

\* C25: position round trip across detector and mapper.  On every Move and
\* Drag the frame dimensions that normalise the position are those the
\* detector multiplied the landmark by, so the normalised value entering
\* the mapping is the landmark's normalised (x, y): with the smoothing
\* state absent the pointer goes to the pixel that the landmark's
\* normalised position maps to.
C25_PositionRoundTrip ==
    [][(HandFrame /\ gesture_result'.type \in {"move", "pinch_drag"}) =>
        LET lm == results'.landmarks
            pos == gesture_result'.data
        IN /\ pos[1] * 100 = lm.index_tip[1] * (100 * FRAME_WIDTH)
           /\ pos[2] * 100 = lm.index_tip[2] * (100 * FRAME_HEIGHT)
           /\ SmoothingAbsent(mouse_controller)
                => backend_call'.args =
                     <<TargetPixel(pos[1], frame_shape[2],
                                   mouse_controller.screen_width),
                       TargetPixel(pos[2], frame_shape[1],
                                   mouse_controller.screen_height)>>
    ]_vars

====
